---------------------------- MODULE Spec2Model ----------------------------
(***************************************************************************)
(* A model of cvt_2_fraction::toFract<int_type>(double val, double         *)
(* Precision) of src/convert_to_fraction.h: the accelerated Stern-Brocot   *)
(* search for a fraction close to a floating-point value.                  *)
(*                                                                         *)
(* int_type is a template parameter.  The model instantiates it with a     *)
(* two's-complement signed integer of Width bits.  A double is modelled    *)
(* by the integer number of units of 1/Scale it holds, Scale = 2^FracBits: *)
(* the arguments are dyadic, and at the model's widths every product,      *)
(* sum and difference the function forms from them is exact in binary64.   *)
(* The two quotients x1 and x2 are kept as exact ratios (type Quot); the   *)
(* code only compares them, adds one, scales them by a denominator and     *)
(* truncates them, and on the model's inputs the rounded binary64 quotient *)
(* gives the same outcome for each of those as the exact one.              *)
(***************************************************************************)
EXTENDS Integers, FiniteSets

\* Number of bits of int_type.
Width == 8

\* Number of fractional bits of the double arguments.
FracBits == 8

RECURSIVE Pow2(_)
Pow2(k) == IF k = 0 THEN 1 ELSE 2 * Pow2(k - 1)

Scale == Pow2(FracBits)

\* std::numeric_limits<int_type>::max() and ::min().
MaxValue == Pow2(Width - 1) - 1
MinValue == 0 - Pow2(Width - 1)

Abs(x) == IF x < 0 THEN 0 - x ELSE x
Sign(x) == IF x > 0 THEN 1 ELSE IF x < 0 THEN 0 - 1 ELSE 0

RECURSIVE GCD(_, _)
GCD(a, b) == IF b = 0 THEN Abs(a) ELSE GCD(b, a % b)

InRange(x) == MinValue <= x /\ x <= MaxValue

\* int_type arithmetic: the value an exact result x leaves in Width bits.
Wrap(x) == ((x - MinValue) % Pow2(Width)) + MinValue

(***************************************************************************)
(* Doubles that are quotients.  [n, d] with d > 0 is the ratio n/d; d = 0  *)
(* is +infinity (n = 1), -infinity (n = -1) or NaN (n = 0), as IEEE        *)
(* division by zero produces them.                                         *)
(***************************************************************************)
Quot(a, b) ==
    IF b > 0 THEN [n |-> a, d |-> b]
    ELSE IF b < 0 THEN [n |-> 0 - a, d |-> 0 - b]
    ELSE [n |-> Sign(a), d |-> 0]

IsNaN(x) == x.d = 0 /\ x.n = 0

\* x > y for finite quotients x and y: the integer parts decide, and when
\* they are equal the fractional parts do.  (The same order as comparing
\* x.n * y.d with y.n * x.d, on smaller numbers.)
GtFinite(x, y) ==
    \/ x.n \div x.d > y.n \div y.d
    \/ /\ x.n \div x.d = y.n \div y.d
       /\ (x.n % x.d) * y.d > (y.n % y.d) * x.d

\* x > y on doubles: false as soon as one side is NaN.
Gt(x, y) ==
    /\ ~IsNaN(x)
    /\ ~IsNaN(y)
    /\ IF x.d = 0 /\ y.d = 0 THEN x.n > y.n
       ELSE IF x.d = 0 THEN x.n > 0
       ELSE IF y.d = 0 THEN y.n < 0
       ELSE GtFinite(x, y)

\* A slip in the conversion: the quotient is rounded down, not toward zero.
TruncFloor(x) == x.n \div x.d

\* Truncation toward zero of the finite quotient x.
Trunc(x) == Sign(x.n) * (Abs(x.n) \div x.d)

(***************************************************************************)
(* int_type(x) for a double x.  The conversion is defined when the         *)
(* truncated value fits int_type.  Otherwise the behaviour is undefined:   *)
(* the outcomes are those of the two conversions compilers emit, the       *)
(* "integer indefinite" value MinValue (x86 cvttsd2si) and the saturated   *)
(* value (AArch64 fcvtzs, constant folding), with NaN giving MinValue or 0.*)
(***************************************************************************)
IntCast(x) ==
    IF x.d > 0 /\ InRange(Trunc(x)) THEN {Trunc(x)}
    ELSE IF IsNaN(x) THEN {MinValue, 0}
    ELSE {MinValue, IF x.n > 0 THEN MaxValue ELSE MinValue}

(***************************************************************************)
(* boost::rational<int_type>: a numerator and a denominator.  The          *)
(* two-argument constructor normalises (divides by the gcd, makes the      *)
(* denominator positive); a zero denominator is left for the caller of     *)
(* Fraction to turn into the bad_rational exception.                       *)
(***************************************************************************)
Fraction(n, d) ==
    IF d = 0 THEN [num |-> n, den |-> 0]
    ELSE LET g == GCD(Abs(n), Abs(d))
             s == IF d < 0 THEN 0 - 1 ELSE 1
         IN  [num |-> s * (n \div g), den |-> s * (d \div g)]

\* rational::operator+=(int_type i): num += i * den, in int_type.
PlusInteger(f, i) == [num |-> Wrap(f.num + Wrap(i * f.den)), den |-> f.den]

\* True when PlusInteger(f, i) leaves int_type's range on the way.
PlusIntegerOverflows(f, i) ==
    ~InRange(i * f.den) \/ ~InRange(f.num + Wrap(i * f.den))

\* toFloat(frac) <= v and >= v, for a double v in units of 1/Scale.
ToFloatLe(f, v) == Gt(Quot(v, Scale), Quot(f.num, f.den)) \/ f.num * Scale = v * f.den
ToFloatGe(f, v) == Gt(Quot(f.num, f.den), Quot(v, Scale)) \/ f.num * Scale = v * f.den

\* The arguments the model calls toFract with, in units of 1/Scale: every
\* value of the unit interval, and the even ones (the values of half the
\* resolution) within 2 of zero, of MinValue and of MaxValue.  Outside the
\* unit interval the integer part only shifts the result.
Values ==
    {v \in ((MinValue - 2) * Scale) .. ((MaxValue + 2) * Scale) :
        \/ 0 <= v /\ v <= Scale
        \/ /\ v % 2 = 0
           /\ \/ Abs(v) <= 2 * Scale
              \/ v <= (MinValue + 2) * Scale
              \/ v >= (MaxValue - 2) * Scale}

PrecisionSet ==
    {0 - (Scale \div 2), 0, 1, 2, 3, Scale \div 2, Scale, Scale + (Scale \div 2)}

VARIABLES
    pc,         \* where the call is: Start, Bounding, or a way it ended
    value,      \* the argument val as the caller passed it
    val,        \* the local val: the argument, then the remainder
    Precision,  \* the argument Precision
    ndebug,     \* TRUE when the build defines NDEBUG (assert compiled out)
    intPart,
    low,
    high,
    result,     \* the fraction returned
    via,        \* which break left the loop: "high", "low", "guard"
    iter,       \* committed bound updates so far
    ovf,        \* some int_type computation left int_type's range
    held,       \* every bound that low or high held earlier in the call
    branch,     \* the branch that committed the last update: "x1", "x2"
    peer,       \* the locals of the other call in progress, if there is one
    running,    \* which call the variables above belong to: 1 or 2
    solo        \* the locals call 1 ended with when it ran with no other call

vars == <<pc, value, val, Precision, ndebug, intPart, low, high, result, via,
          iter, ovf, held, branch, peer, running, solo>>

\* What a step of a call has no access to: the other call and the caller's
\* record.
rest == <<peer, running, solo>>

\* The arguments, the locals of lines 272-280 and 348-354, and the history
\* of the call the variables belong to.  They are parameters and automatic
\* variables: every call has its own.  (The only object calls share is the
\* stream std::cerr, which they write to and never read.)
Locals ==
    [pc |-> pc, value |-> value, val |-> val, Precision |-> Precision,
     intPart |-> intPart, low |-> low, high |-> high, result |-> result,
     via |-> via, iter |-> iter, ovf |-> ovf, held |-> held, branch |-> branch]

NoCall == [pc |-> "None"]

NoFraction == [num |-> 0, den |-> 0]

Init ==
    /\ pc = "Start"
    /\ value \in Values
    /\ val = value
    /\ Precision \in PrecisionSet
    /\ ndebug \in BOOLEAN
    /\ intPart = 0
    /\ low = NoFraction
    /\ high = NoFraction
    /\ result = NoFraction
    /\ via = "none"
    /\ iter = 0
    /\ ovf = FALSE
    /\ held = {}
    /\ branch = "none"
    /\ peer = NoCall
    /\ running = 1
    /\ solo = NoCall

\* A slip in the range check: the magnitude is tested before the integer
\* part is taken off.
RangeCheckBeforeSubtract(v, ip) == Abs(v) > Scale

\* Lines 273-274: val -= double(intPart); std::abs(val) > 1, for the
\* argument v and the integer part ip.
RangeCheckFails(v, ip) == Abs(v - ip * Scale) > Scale

\* Lines 272-280: the integer part, the remainder, the range check, and
\* the first bounds.
Enter ==
    /\ pc = "Start"
    /\ \E ip \in IntCast(Quot(val, Scale)) :
         /\ intPart' = ip
         /\ val' = val - ip * Scale
         /\ IF RangeCheckFails(val, ip)
            THEN /\ pc' = "RangeError"
                 /\ UNCHANGED <<low, high>>
            ELSE /\ pc' = "Bounding"
                 /\ low' = Fraction(0, 1)
                 /\ high' = Fraction(1, 1)
    /\ UNCHANGED <<value, Precision, ndebug, result, via, iter, ovf, held, branch,
                   rest>>

\* Lines 294-295.
testLow == low.den * val - low.num * Scale
testHigh == high.num * Scale - high.den * val

\* Lines 325-326.
x1 == Quot(testHigh, testLow)
x2 == Quot(testLow, testHigh)

\* The asserts of lines 288-289 and 393-394 on bounds l and h: they pass,
\* or the build compiled them out.
AssertsHold(l, h) == ndebug \/ (ToFloatLe(l, val) /\ ToFloatGe(h, val))

\* A slip in the safety check: it bounds the denominator n * a + b of the
\* bound stepped to and forgets the one of its mediant, (n + 1) * a + b.
GuardWithoutPlusOne(x, a, b) ==
    IF x.d > 0
    THEN x.n * a + b * x.d >= MaxValue * x.d
    ELSE (x.n > 0 /\ a > 0) \/ (x.n < 0 /\ a < 0)

\* A slip in the safety check: the margin is two steps, not one.
GuardPlusTwo(x, a, b) ==
    IF x.d > 0
    THEN (x.n + 2 * x.d) * a + b * x.d >= MaxValue * x.d
    ELSE (x.n > 0 /\ a > 0) \/ (x.n < 0 /\ a < 0)

\* A slip in the safety check: it is left out, as in the code the function
\* was derived from.
GuardNever(x, a, b) == FALSE

\* Lines 337 and 367: (x + 1) * a + b >= double(MaxValue), for a quotient
\* x and denominators a and b.
GuardTrips(x, a, b) ==
    IF x.d > 0
    THEN (x.n + x.d) * a + b * x.d >= MaxValue * x.d
    ELSE (x.n > 0 /\ a > 0) \/ (x.n < 0 /\ a < 0)

\* Lines 313 and 318: neither convergence check holds.
NotConverged == testHigh >= Precision /\ testLow >= Precision

\* Lines 397-404 after a break that leaves bound f as the answer.
Return(f, state, how) ==
    /\ pc' = state
    /\ via' = how
    /\ result' = PlusInteger(f, intPart)
    /\ ovf' = (ovf \/ PlusIntegerOverflows(f, intPart))

\* Lines 288-289: an assert at the top of an iteration fails.
AssertFail ==
    /\ pc = "Bounding"
    /\ ~AssertsHold(low, high)
    /\ pc' = "Aborted"
    /\ UNCHANGED <<value, val, Precision, ndebug, intPart, low, high, result,
                   via, iter, ovf, held, branch, rest>>

\* A slip in the high check: <= in place of <.
ConvergeHighInclusive ==
    /\ pc = "Bounding"
    /\ AssertsHold(low, high)
    /\ testHigh <= Precision
    /\ Return(high, "Converged", "high")
    /\ UNCHANGED <<value, val, Precision, ndebug, intPart, low, high, iter, held,
                   branch, rest>>

\* Lines 313-316: high is the answer.
ConvergeHigh ==
    /\ pc = "Bounding"
    /\ AssertsHold(low, high)
    /\ testHigh < Precision
    /\ Return(high, "Converged", "high")
    /\ UNCHANGED <<value, val, Precision, ndebug, intPart, low, high, iter, held,
                   branch, rest>>

\* A slip: the low check is made without the high check having failed, as
\* if it came first.
ConvergeLowFirst ==
    /\ pc = "Bounding"
    /\ AssertsHold(low, high)
    /\ testLow < Precision
    /\ high' = low
    /\ Return(low, "Converged", "low")
    /\ UNCHANGED <<value, val, Precision, ndebug, intPart, low, iter, held, branch,
                   rest>>

\* Lines 318-323: low is the answer.
ConvergeLow ==
    /\ pc = "Bounding"
    /\ AssertsHold(low, high)
    /\ ~(testHigh < Precision)
    /\ testLow < Precision
    /\ high' = low
    /\ Return(low, "Converged", "low")
    /\ UNCHANGED <<value, val, Precision, ndebug, intPart, low, iter, held, branch,
                   rest>>

\* Lines 337-340: the safety check of the x1 > x2 branch stops the search.
GuardStopHigh ==
    /\ pc = "Bounding"
    /\ AssertsHold(low, high)
    /\ NotConverged
    /\ Gt(x1, x2)
    /\ GuardTrips(x1, low.den, high.den)
    /\ Return(high, "OverflowStopped", "guard")
    /\ UNCHANGED <<value, val, Precision, ndebug, intPart, low, high, iter, held,
                   branch, rest>>

\* Lines 367-370: the safety check of the other branch stops the search.
GuardStopLow ==
    /\ pc = "Bounding"
    /\ AssertsHold(low, high)
    /\ NotConverged
    /\ ~Gt(x1, x2)
    /\ GuardTrips(x2, high.den, low.den)
    /\ Return(high, "OverflowStopped", "guard")
    /\ UNCHANGED <<value, val, Precision, ndebug, intPart, low, high, iter, held,
                   branch, rest>>

\* A slip in the x1 > x2 branch: the multiplier is rounded up, one step too
\* far from high toward low.
HighStepRoundUp(n) ==
    LET h_num == Wrap(Wrap((n + 1) * low.num) + high.num)
        h_denom == Wrap(Wrap((n + 1) * low.den) + high.den)
    IN  [h_num |-> h_num,
         h_denom |-> h_denom,
         l_num |-> Wrap(h_num + low.num),
         l_denom |-> Wrap(h_denom + low.den),
         exact |-> {(n + 1) * low.num, Wrap((n + 1) * low.num) + high.num,
                    (n + 1) * low.den, Wrap((n + 1) * low.den) + high.den,
                    h_num + low.num, h_denom + low.den},
         branch |-> "x1"]

\* Lines 348-354: the new bounds of the x1 > x2 branch for multiplier n,
\* in int_type, with the exact value of every intermediate result.
HighStep(n) ==
    LET h_num == Wrap(Wrap(n * low.num) + high.num)
        h_denom == Wrap(Wrap(n * low.den) + high.den)
    IN  [h_num |-> h_num,
         h_denom |-> h_denom,
         l_num |-> Wrap(h_num + low.num),
         l_denom |-> Wrap(h_denom + low.den),
         exact |-> {n * low.num, Wrap(n * low.num) + high.num,
                    n * low.den, Wrap(n * low.den) + high.den,
                    h_num + low.num, h_denom + low.den},
         branch |-> "x1"]

\* A slip in the other branch: low steps n times toward high and high is
\* left where it was.
LowStepKeepsHigh(n) ==
    LET l_num == Wrap(low.num + Wrap(n * high.num))
        l_denom == Wrap(low.den + Wrap(n * high.den))
    IN  [l_num |-> l_num,
         l_denom |-> l_denom,
         h_num |-> high.num,
         h_denom |-> high.den,
         exact |-> {n * high.num, low.num + Wrap(n * high.num),
                    n * high.den, low.den + Wrap(n * high.den)},
         branch |-> "x2"]

\* A slip in the other branch: the new high is the mediant of the new low
\* and the old low instead of the old high.
LowStepWrongMediant(n) ==
    LET l_num == Wrap(low.num + Wrap(n * high.num))
        l_denom == Wrap(low.den + Wrap(n * high.den))
    IN  [l_num |-> l_num,
         l_denom |-> l_denom,
         h_num |-> Wrap(l_num + low.num),
         h_denom |-> Wrap(l_denom + low.den),
         exact |-> {n * high.num, low.num + Wrap(n * high.num),
                    n * high.den, low.den + Wrap(n * high.den),
                    l_num + low.num, l_denom + low.den},
         branch |-> "x2"]

\* Lines 378-384: the new bounds of the other branch for multiplier n.
LowStep(n) ==
    LET l_num == Wrap(low.num + Wrap(n * high.num))
        l_denom == Wrap(low.den + Wrap(n * high.den))
    IN  [l_num |-> l_num,
         l_denom |-> l_denom,
         h_num |-> Wrap(l_num + high.num),
         h_denom |-> Wrap(l_denom + high.den),
         exact |-> {n * high.num, low.num + Wrap(n * high.num),
                    n * high.den, low.den + Wrap(n * high.den),
                    l_num + high.num, l_denom + high.den},
         branch |-> "x2"]

\* Lines 360-361, 390-391 and 393-394: the new bounds s are constructed (a
\* zero denominator throws bad_rational out of the call) and the closing
\* asserts are made.
Commit(s) ==
    /\ IF s.l_denom = 0 \/ s.h_denom = 0
       THEN /\ pc' = "Threw"
            /\ UNCHANGED <<low, high>>
       ELSE /\ low' = Fraction(s.l_num, s.l_denom)
            /\ high' = Fraction(s.h_num, s.h_denom)
            /\ pc' = IF AssertsHold(Fraction(s.l_num, s.l_denom),
                                    Fraction(s.h_num, s.h_denom))
                     THEN "Bounding"
                     ELSE "Aborted"
    /\ ovf' = (ovf \/ \E e \in s.exact : ~InRange(e))
    /\ iter' = iter + 1
    /\ held' = held \cup {low, high}
    /\ branch' = s.branch
    /\ UNCHANGED <<value, val, Precision, ndebug, intPart, result, via, rest>>

\* Lines 333-362: the x1 > x2 branch steps from high toward low.
StepHigh ==
    /\ pc = "Bounding"
    /\ AssertsHold(low, high)
    /\ NotConverged
    /\ Gt(x1, x2)
    /\ ~GuardTrips(x1, low.den, high.den)
    /\ \E n \in IntCast(x1) : Commit(HighStep(n))

\* Lines 363-392: the other branch steps from low toward high.
StepLow ==
    /\ pc = "Bounding"
    /\ AssertsHold(low, high)
    /\ NotConverged
    /\ ~Gt(x1, x2)
    /\ ~GuardTrips(x2, high.den, low.den)
    /\ \E n \in IntCast(x2) : Commit(LowStep(n))

Next ==
    \/ Enter
    \/ AssertFail
    \/ ConvergeHigh
    \/ ConvergeLow
    \/ GuardStopHigh
    \/ GuardStopLow
    \/ StepHigh
    \/ StepLow

Spec == Init /\ [][Next]_vars

\* toFract is sequential code: once called it keeps running until it returns,
\* throws or aborts.
FairSpec == Spec /\ WF_vars(Next)

(***************************************************************************)
(* Two calls in one program.  Call 1 first runs with no other call in      *)
(* progress; the caller keeps what it ended with and calls toFract again   *)
(* with the same arguments, this time while call 2 runs on another thread. *)
(* The scheduler may move from one call to the other between any two       *)
(* steps.  NDEBUG is a property of the build: both calls share it.         *)
(***************************************************************************)

\* The arguments of the two concurrent calls.
ConcValues ==
    {0 - (Scale \div 2), 1, 3, Scale \div 2, Scale - 3, Scale - 1,
     (MaxValue - 1) * Scale + 3}
ConcPrecisions == {0 - (Scale \div 2), 0, 1, Scale \div 2}

\* Lines 262-263: the locals of a call that has just been made.
StartLocals(v, p) ==
    [pc |-> "Start", value |-> v, val |-> v, Precision |-> p, intPart |-> 0,
     low |-> NoFraction, high |-> NoFraction, result |-> NoFraction,
     via |-> "none", iter |-> 0, ovf |-> FALSE, held |-> {},
     branch |-> "none"]

\* The processor's view moves to the call whose locals are c.
Load(c) ==
    /\ pc' = c.pc
    /\ value' = c.value
    /\ val' = c.val
    /\ Precision' = c.Precision
    /\ intPart' = c.intPart
    /\ low' = c.low
    /\ high' = c.high
    /\ result' = c.result
    /\ via' = c.via
    /\ iter' = c.iter
    /\ ovf' = c.ovf
    /\ held' = c.held
    /\ branch' = c.branch

ConcInit ==
    /\ pc = "Start"
    /\ value \in ConcValues
    /\ val = value
    /\ Precision \in ConcPrecisions
    /\ intPart = 0
    /\ low = NoFraction
    /\ high = NoFraction
    /\ result = NoFraction
    /\ via = "none"
    /\ iter = 0
    /\ ovf = FALSE
    /\ held = {}
    /\ branch = "none"
    /\ ndebug \in BOOLEAN
    /\ peer \in {StartLocals(v, p) : v \in ConcValues, p \in ConcPrecisions}
    /\ running = 1
    /\ solo = NoCall

\* The call has ended and the program goes on: it returned or threw.  A
\* failed assert ends the program.
Ended(c) == c.pc \in {"Converged", "OverflowStopped", "RangeError", "Threw"}

\* src/test.cpp calls toFract time after time: call 1 is made again with
\* the arguments it had, and what it ended with is kept for comparison.
Restart ==
    /\ solo = NoCall
    /\ peer # NoCall
    /\ Ended(Locals)
    /\ solo' = Locals
    /\ Load(StartLocals(value, Precision))
    /\ UNCHANGED <<ndebug, peer, running>>

\* A slip: low and high have static storage duration, one pair for all the
\* calls of the program.
SwitchSharedBounds ==
    /\ solo # NoCall
    /\ pc # "Aborted"
    /\ peer.pc \in {"Start", "Bounding"}
    /\ peer' = Locals
    /\ Load([peer EXCEPT !.low = low, !.high = high])
    /\ running' = 3 - running
    /\ UNCHANGED <<ndebug, solo>>

\* The scheduler suspends the running call between two of its steps and
\* resumes the other call.  Lines 262-280: val, Precision, intPart, low and
\* high are parameters and automatic variables, so the suspended call's
\* stay as it left them.
Switch ==
    /\ solo # NoCall
    /\ pc # "Aborted"
    /\ peer.pc \in {"Start", "Bounding"}
    /\ peer' = Locals
    /\ Load(peer)
    /\ running' = 3 - running
    /\ UNCHANGED <<ndebug, solo>>

ConcNext ==
    \/ Next
    \/ Restart
    \/ Switch

ConcSpec == ConcInit /\ [][ConcNext]_vars

(***************************************************************************)
(* Vocabulary of the properties.                                           *)
(***************************************************************************)

\* The arguments whose integer part, truncated toward zero, fits int_type.
InRangeValues == {v \in Values : InRange(Trunc(Quot(v, Scale)))}

ValueInRange == value \in InRangeValues

\* The call returned a fraction.
Returned == pc \in {"Converged", "OverflowStopped"}

\* The distance of fraction f (positive denominator) from the double v,
\* scaled by Scale * f.den.
Dist(f, v) == Abs(f.num * Scale - v * f.den)

\* |toFloat(f) - v| < t, for doubles v and t in units of 1/Scale.
Within(f, v, t) == f.den > 0 /\ Dist(f, v) < t * f.den

\* Fraction f is strictly closer to v than fraction g.
Closer(f, g, v) == Dist(f, v) * g.den < Dist(g, v) * f.den

\* Fraction f lies strictly between the double v and fraction g.
Between(f, v, g) ==
    \/ (v * f.den < f.num * Scale /\ f.num * g.den < g.num * f.den)
    \/ (g.num * f.den < f.num * g.den /\ f.num * Scale < v * f.den)

\* C1: whenever toFract stops on one of its two convergence checks, for a
\* value whose integer part fits int_type and a positive precision, the
\* returned fraction is within the precision of the value.
C1_RoundTripBound ==
    (pc = "Converged" /\ ValueInRange /\ Precision > 0)
        => Within(result, value, Precision)

\* C2: the returned fraction is a best rational approximation: no fraction
\* with a denominator up to the result's lies strictly closer to the value.
C2_BestApproximation ==
    (Returned /\ ValueInRange /\ Precision > 0)
        => \A d \in 1..result.den :
             \A k \in 0..1 :
               ~Closer([num |-> ((value * d) \div Scale) + k, den |-> d],
                       result, value)

\* C2, amended: for a precision in (0, 1] the bound the search selects
\* (the returned fraction before the integer part is added) is a best
\* approximation of the remainder from its own side: no fraction with a
\* denominator up to its own lies strictly between the remainder and it;
\* the same holds of the returned fraction and the value when the final
\* addition stays in range.
C2_OneSidedBest ==
    (Returned /\ ValueInRange /\ Precision > 0 /\ Precision <= Scale)
        => /\ \A d \in 1..high.den :
                \A n \in (0 - d)..d :
                  ~Between([num |-> n, den |-> d], val, high)
           /\ ~ovf =>
                \A d \in 1..result.den :
                  \A k \in 0..1 :
                    ~Between([num |-> ((value * d) \div Scale) + k, den |-> d],
                             value, result)

\* C2 witness: for a non-negative value a search that committed an update
\* returned, without overflow, a fraction while another fraction with a
\* smaller denominator is closer to the value.
C2_Witness ==
    /\ Returned /\ ValueInRange /\ Precision > 0 /\ Precision <= Scale
    /\ value >= 0
    /\ iter >= 1
    /\ ~ovf
    /\ \E d \in 1..(result.den - 1) :
         \E k \in 0..1 :
           Closer([num |-> ((value * d) \div Scale) + k, den |-> d], result, value)

\* C3: for a value whose integer part fits int_type no integer computation
\* of the call overflows, the final addition of the integer part included.
C3_NoOverflow == ValueInRange => ~ovf

\* C4: a value whose truncated integer part is outside int_type's range
\* ends in the range error, before any bound is computed.
C4_RangeErrorOutside ==
    (pc # "Start" /\ ~ValueInRange)
        => (pc = "RangeError" /\ low = NoFraction /\ high = NoFraction)

\* C5: the range error is raised when the truncated integer part of the
\* value equals MaxValue, and not when it is one less.
C5_RangeBoundary ==
    pc # "Start" =>
        /\ Trunc(Quot(value, Scale)) = MaxValue => pc = "RangeError"
        /\ Trunc(Quot(value, Scale)) = MaxValue - 1 => pc # "RangeError"

\* C5, amended: the range error is raised neither when the truncated
\* integer part equals MaxValue nor when it is one less; it is raised only
\* for a value whose truncated integer part is outside int_type's range.
C5_ErrorOnlyOutside == pc = "RangeError" => ~ValueInRange

\* C5 witness: a value with truncated integer part MaxValue and a fraction
\* passed the range check and the search went on to return.
C5_Witness ==
    /\ Returned
    /\ Precision > 0
    /\ Trunc(Quot(value, Scale)) = MaxValue
    /\ intPart = MaxValue
    /\ val > 0

\* C6: for a value whose integer part fits int_type and any precision the
\* call ends in no failure: no range error, no exception, no abort.
C6_RangeCheckOnlyFailure ==
    ValueInRange => pc \notin {"RangeError", "Threw", "Aborted"}

\* C7: for a value whose integer part fits int_type and a positive
\* precision the loop leaves Bounding only for Converged or
\* OverflowStopped, it does so after finitely many iterations, and the
\* bounds do not change once either is reached.
C7_Termination ==
    /\ [][(pc = "Bounding" /\ ValueInRange /\ Precision > 0)
            => pc' \in {"Bounding", "Converged", "OverflowStopped"}]_vars
    /\ [][Returned => (pc' = pc /\ low' = low /\ high' = high)]_vars
    /\ [](ValueInRange /\ Precision > 0 => <>Returned)

\* C8: when the safety check stops the search, the bound returned (high) is
\* at least as close to the remainder as low and as every bound held
\* earlier in the call.
C8_TightestBound ==
    (pc = "OverflowStopped" /\ ValueInRange /\ Precision > 0)
        => /\ ~Closer(low, high, val)
           /\ \A b \in held : ~Closer(b, high, val)

\* The argument as the fraction p/q in lowest terms.
ValueQ == Scale \div GCD(Abs(value), Scale)
ValueP == value \div GCD(Abs(value), Scale)

\* C9: a value that is exactly p/q with p and q in int_type's range and a
\* positive precision give a result within the precision of p/q, equal to
\* p/q when the precision is at most 1/q, and the safety check never stops
\* the search.
C9_ExactRationals ==
    (Returned /\ ValueQ <= MaxValue /\ InRange(ValueP) /\ Precision > 0)
        => /\ pc = "Converged"
           /\ Within(result, value, Precision)
           /\ Precision * ValueQ <= Scale => result.num * ValueQ = ValueP * result.den

\* C10: once the range check has accepted the value, the denominators of
\* low, high and the returned fraction are strictly positive, whatever the
\* precision; no update ever constructs a zero denominator.
C10_DenominatorsPositive ==
    /\ pc \notin {"Start", "RangeError"} => (low.den > 0 /\ high.den > 0)
    /\ \A b \in held : b.den > 0
    /\ Returned => result.den > 0
    /\ pc # "Threw"

\* C10 witness: for a positive value and precision a fraction with a
\* denominator above 2 was returned after at least two updates had replaced
\* the bounds.
C10_Witness ==
    /\ Returned
    /\ value > 0 /\ Precision > 0
    /\ iter >= 2
    /\ result.den > 2
    /\ \E b \in held : b.den > 1 /\ b # low /\ b # high

C12_Bracketing ==
    (ValueInRange /\ Precision > 0)
        => /\ pc = "Bounding" => (ToFloatLe(low, val) /\ ToFloatGe(high, val))
           /\ pc # "Aborted"

(***************************************************************************)
(* C13: iteration cap.  No call runs its loop more than 64 times, whatever *)
(* the value and the precision (zero and negative precisions and negative  *)
(* values included): after 64 iterations without convergence or a tripped  *)
(* guard the call stops and returns the current high.  iter counts the     *)
(* iterations that ended in a committed update.                            *)
(***************************************************************************)
C13_IterationCap == iter <= 64

\* Lines 342-354 and 372-384 in exact arithmetic: some component of the
\* update the current iteration would make exceeds MaxValue.
WouldExceed ==
    IF Gt(x1, x2)
    THEN \E n \in IntCast(x1) : \E e \in HighStep(n).exact : e > MaxValue
    ELSE \E n \in IntCast(x2) : \E e \in LowStep(n).exact : e > MaxValue

(***************************************************************************)
(* C14: the safety check comes before the update.  Every committed update  *)
(* leaves the four new components (both numerators, both denominators) in  *)
(* int_type's range, at most MaxValue, with no overflow on the way; and in *)
(* an iteration whose update would take one of them above MaxValue the     *)
(* loop stops with low and high as they were.                              *)
(***************************************************************************)
C14_GuardBeforeCommit ==
    [][pc = "Bounding" =>
         /\ iter' = iter + 1 =>
              /\ pc' # "Threw"
              /\ ovf' = ovf
              /\ \A c \in {low'.num, low'.den, high'.num, high'.den} :
                   c <= MaxValue
         /\ (AssertsHold(low, high) /\ NotConverged /\ WouldExceed) =>
              /\ pc' = "OverflowStopped"
              /\ low' = low
              /\ high' = high
              /\ iter' = iter]_vars

\* The safety check has stopped a search, after committed updates, in an
\* iteration whose update would not have fitted.
C14_Witness ==
    /\ pc = "OverflowStopped"
    /\ iter >= 2
    /\ value > 0
    /\ Precision > 0
    /\ NotConverged
    /\ WouldExceed
    /\ ~ovf

(***************************************************************************)
(* C15: monotonic convergence.  From one iteration of the loop to the      *)
(* next low.denominator and high.denominator never decrease, and every     *)
(* iteration that commits a bound update strictly increases at least one   *)
(* of them.                                                                *)
(***************************************************************************)
C15_MonotonicDenominators ==
    [][(pc = "Bounding" /\ iter' = iter + 1 /\ pc' # "Threw") =>
         /\ low'.den >= low.den
         /\ high'.den >= high.den
         /\ low'.den > low.den \/ high'.den > high.den]_vars

\* The last update came from the x2 branch, earlier ones raised both
\* denominators, and the search goes on.
C15_Witness ==
    /\ pc = "Bounding"
    /\ iter >= 3
    /\ branch = "x2"
    /\ value > 0
    /\ Precision > 0
    /\ \E b \in held : b.den > 1 /\ b.den < low.den /\ b.den < high.den

\* gcd(numerator, denominator) = 1.
LowestTerms(n, d) == GCD(Abs(n), Abs(d)) = 1

(***************************************************************************)
(* C16: lowest terms.  Every bound low or high holds, as the update        *)
(* formulas compute it and before any normalisation by the fraction type,  *)
(* and the fraction the call returns have gcd(numerator, denominator) = 1. *)
(***************************************************************************)
C16_LowestTerms ==
    (ValueInRange /\ Precision > 0)
        => /\ (pc = "Bounding" /\ NotConverged /\ Gt(x1, x2)
                 /\ ~GuardTrips(x1, low.den, high.den))
                => \A n \in IntCast(x1) :
                     /\ LowestTerms(HighStep(n).h_num, HighStep(n).h_denom)
                     /\ LowestTerms(HighStep(n).l_num, HighStep(n).l_denom)
           /\ (pc = "Bounding" /\ NotConverged /\ ~Gt(x1, x2)
                 /\ ~GuardTrips(x2, high.den, low.den))
                => \A n \in IntCast(x2) :
                     /\ LowestTerms(LowStep(n).h_num, LowStep(n).h_denom)
                     /\ LowestTerms(LowStep(n).l_num, LowStep(n).l_denom)
           /\ Returned => LowestTerms(result.num, result.den)

(***************************************************************************)
(* C17: after every committed update of the x1 > x2 branch the new high is *)
(* the tighter of the two new bounds: |high - remainder| <= |low -         *)
(* remainder|.                                                             *)
(***************************************************************************)
C17_HighIsTighter ==
    (pc = "Bounding" /\ branch = "x1" /\ ValueInRange /\ Precision > 0)
        => ~Closer(low, high, val)

\* C17 as the code has it: after every committed update of the x1 > x2
\* branch the new low is at or below the remainder and the new high at or
\* above it, whichever of the two is the nearer.
C17_HighIsUpperBound ==
    (pc \in {"Bounding", "Aborted"} /\ branch = "x1")
        => /\ low.num * Scale <= val * low.den
           /\ val * high.den <= high.num * Scale
           /\ low.den > 0
           /\ high.den > 0

\* An update of the x1 > x2 branch has left low strictly nearer to the
\* remainder than high.
C17_Witness ==
    /\ pc = "Bounding"
    /\ branch = "x1"
    /\ iter >= 2
    /\ ValueInRange
    /\ Precision > 0
    /\ Closer(low, high, val)

(***************************************************************************)
(* C18: order of the convergence checks.  In an iteration with testHigh <  *)
(* precision the loop stops and the result is built from high, even when   *)
(* testLow < precision holds too or low is the nearer bound; the result is *)
(* built from low (high := low) only when testHigh >= precision and        *)
(* testLow < precision; in both cases the iteration updates no bound.      *)
(* The iterations concerned are those that reach the checks of lines 313   *)
(* and 318: the asserts of lines 288-289 passed or are compiled out.       *)
(***************************************************************************)
C18_HighCheckFirst ==
    [][(pc = "Bounding" /\ AssertsHold(low, high)) =>
         /\ testHigh < Precision =>
              /\ pc' = "Converged"
              /\ via' = "high"
              /\ high' = high
              /\ result' = PlusInteger(high, intPart)
         /\ (testHigh >= Precision /\ testLow < Precision) =>
              /\ pc' = "Converged"
              /\ via' = "low"
              /\ high' = low
              /\ result' = PlusInteger(low, intPart)
         /\ pc' = "Converged" =>
              /\ testHigh < Precision \/ testLow < Precision
              /\ low' = low
              /\ iter' = iter
              /\ held' = held]_vars

\* The search has stopped on the high check although the low check held
\* as well and low was strictly nearer to the remainder.
C18_Witness ==
    /\ pc = "Converged"
    /\ via = "high"
    /\ iter >= 1
    /\ testHigh < Precision
    /\ testLow < Precision
    /\ Closer(low, high, val)
    /\ ValueInRange
    /\ Precision > 0
    /\ result = PlusInteger(high, intPart)

(***************************************************************************)
(* C19: low and high are neighbours.  At the start of every iteration and  *)
(* after every committed update                                            *)
(*   high.numerator * low.denominator - low.numerator * high.denominator   *)
(* equals 1; in particular low and high are never the same value before    *)
(* the low check assigns high := low.                                      *)
(***************************************************************************)
C19_Unimodular ==
    (pc \in {"Bounding", "Aborted", "OverflowStopped"}
       \/ (pc = "Converged" /\ via = "high"))
        => /\ high.num * low.den - low.num * high.den = 1
           /\ low # high

\* Several updates of both branches have been committed and the search
\* goes on between two bounds that are no longer 0/1 and 1/1.
C19_Witness ==
    /\ pc = "Bounding"
    /\ iter >= 3
    /\ value > 0
    /\ Precision > 0
    /\ low.num > 0
    /\ high.den > 1
    /\ \E b \in held : b.den > 1 /\ b # low /\ b # high
    /\ high.num * low.den - low.num * high.den = 1

\* floor(log2(n)) for n >= 1.
RECURSIVE Log2(_)
Log2(n) == IF n < 2 THEN 0 ELSE 1 + Log2(n \div 2)

(***************************************************************************)
(* C20: logarithmic bound.  For a non-negative remainder and any precision *)
(* every committed update at least doubles low.denominator +               *)
(* high.denominator, so a call commits at most floor(log2(MaxValue))       *)
(* updates.                                                                *)
(***************************************************************************)
C20_LogarithmicBound ==
    /\ [][(pc = "Bounding" /\ val >= 0 /\ iter' = iter + 1) =>
            low'.den + high'.den >= 2 * (low.den + high.den)]_vars
    /\ [](val >= 0 => iter <= Log2(MaxValue))

\* A call on a non-negative remainder has committed four doubling updates
\* and searches on.
C20_Witness ==
    /\ pc = "Bounding"
    /\ val >= 0
    /\ Precision > 0
    /\ ValueInRange
    /\ iter >= 4
    /\ low.den + high.den >= Pow2(iter + 1)

\* The call is on a negative value with a non-zero fractional part, accepted
\* by the range check, with 0 < precision <= 1, in a build without asserts.
NegativeFractional ==
    /\ ValueInRange
    /\ value < 0
    /\ value % Scale # 0
    /\ Precision > 0
    /\ Precision <= Scale
    /\ ndebug

\* f is trunc(v)/1: the integer next to v on the side of zero, for v < 0.
IsTruncated(f, v) ==
    /\ f.den = 1
    /\ f.num * Scale > v
    /\ f.num * Scale - v < Scale

C22_ScaledConvergence ==
    (pc = "Converged" /\ val >= 0 /\ ValueInRange /\ Precision <= Scale)
        => /\ result.den > 0
           /\ Dist(result, value) < Precision

\* The call is on an integer in int_type's range with 0 < precision <= 1.
IntegerInput ==
    /\ ValueInRange
    /\ value % Scale = 0
    /\ Precision > 0
    /\ Precision <= Scale

(***************************************************************************)
(* C23: integer inputs.  For every integer v in int_type's range,          *)
(* positive, zero or negative, and every precision with 0 < precision <=   *)
(* 1, the call returns exactly v/1, reached in the first iteration through *)
(* the low check with no bound update.                                     *)
(***************************************************************************)
C23_IntegerInputs ==
    /\ [][(IntegerInput /\ pc = "Bounding") =>
            /\ pc' = "Converged"
            /\ via' = "low"
            /\ iter' = 0
            /\ result'.den = 1
            /\ result'.num * Scale = value]_vars
    /\ [](IntegerInput =>
            /\ pc \in {"Start", "Bounding", "Converged"}
            /\ iter = 0
            /\ held = {}
            /\ ~ovf
            /\ pc = "Converged" => result.num * Scale = value)

\* A negative integer has been returned as itself at precision 1, where
\* testHigh equals the precision, in a build with asserts.
C23_Witness ==
    /\ IntegerInput
    /\ pc = "Converged"
    /\ via = "low"
    /\ value < 0
    /\ Precision = Scale
    /\ ~ndebug
    /\ result.den = 1
    /\ result.num * Scale = value

\* The quotient the current iteration steps by is finite.
QuotientFinite == IF Gt(x1, x2) THEN x1.d > 0 ELSE x2.d > 0

\* Lines 349-354 and 379-384 in exact arithmetic: the larger of the two
\* denominators the current iteration's update would produce, with
\* n = trunc(x1) or trunc(x2).
PreventedDenominator ==
    IF Gt(x1, x2)
    THEN (Trunc(x1) + 1) * low.den + high.den
    ELSE low.den + (Trunc(x2) + 1) * high.den

\* The denominator the update multiplies by n.
SteppedDenominator == IF Gt(x1, x2) THEN low.den ELSE high.den

(***************************************************************************)
(* C24: the safety check is exact.  Whenever it stops the search, the      *)
(* update it prevented, with n = floor(x1) or floor(x2), would have        *)
(* produced a low or high denominator greater than or equal to MaxValue:   *)
(* it never stops a search whose next update would fit.                    *)
(***************************************************************************)
C24_GuardExact ==
    (pc = "OverflowStopped" /\ ValueInRange /\ Precision > 0 /\ val >= 0)
        => PreventedDenominator >= MaxValue

\* C24 as the code has it: the safety check is an estimate on the safe
\* side.  When it stops the search on a finite quotient, the larger
\* prevented denominator is within one step of MaxValue: adding the
\* denominator being stepped by takes it above MaxValue.
C24_GuardWithinOneStep ==
    (pc = "OverflowStopped" /\ QuotientFinite)
        => PreventedDenominator + SteppedDenominator > MaxValue

\* The safety check has stopped a search, after committed updates, whose
\* next update would have fitted int_type in every component.
C24_Witness ==
    /\ pc = "OverflowStopped"
    /\ ValueInRange
    /\ Precision > 0
    /\ val >= 0
    /\ iter >= 1
    /\ QuotientFinite
    /\ PreventedDenominator < MaxValue
    /\ ~WouldExceed

=============================================================================
